---- MODULE Spec2Model ----
(***************************************************************************)
(* DataPilot (src/app.py): a Streamlit script that is re-executed from top *)
(* to bottom on every user interaction.  The model keeps the four entries  *)
(* of st.session_state, the widgets that survive between runs, and what    *)
(* the last run put on the screen.  One action is one user interaction     *)
(* followed by the complete script run it triggers (and the second run     *)
(* that st.rerun() starts after a cleaning button).                        *)
(*                                                                         *)
(* Python values:  None is <<>> and a present value v is <<v>>.            *)
(* Cells:  a missing cell (NaN) is <<>>, a number is the reduced fraction  *)
(* <<n, d>> with d > 0, a text is <<s>>.  pandas computes means in float64;*)
(* the model computes them exactly.                                        *)
(* A table is [cols: the column names in order, numeric: the names whose   *)
(* dtype is a number dtype, rows: a sequence of functions name -> cell].   *)
(***************************************************************************)
EXTENDS Integers, Sequences, FiniteSets, TLC

VARIABLES
  raw_df,          \* st.session_state.raw_df
  df,              \* st.session_state.df
  current_file,    \* st.session_state.current_file
  visual_config,   \* st.session_state.visual_config
  aliased,         \* st.session_state.df and .raw_df are one DataFrame object
  page,            \* the navigation radio
  uploaded_file,   \* the file uploader: None or <<[name, readable]>>
  slots,           \* the Visualize widgets type_i / col_i rendered by the last run
  sidebar,         \* the sidebar message of the last run
  body,            \* what the last run rendered on the page
  open_figs        \* matplotlib figures left open by the last run

vars == <<raw_df, df, current_file, visual_config, aliased, page,
          uploaded_file, slots, sidebar, body, open_figs>>

None == <<>>
Some(v) == <<v>>

\* ------------------------------------------------------------------ bounds
MaxRows == 2
MaxVisuals == 3
MaxEdited == 1

\* ------------------------------------------------------- program constants
SliderMin == 1
SliderDefault == 3
GridWidth == 3

Pages == <<"1. Upload & Clean", "2. Visualize", "3. Final Report">>
chart_types == <<"Histogram", "Bar", "Pie", "Line", "Scatter", "Boxplot">>
FillStrategies == <<"Select Strategy", "Mean", "Median", "Zero">>

Min(a, b) == IF a <= b THEN a ELSE b
Range(s) == {s[i] : i \in 1..Len(s)}

\* ------------------------------------------------------------------- cells
NaN == <<>>
Txt(s) == <<s>>

RECURSIVE Gcd(_, _)
Gcd(a, b) == IF b = 0 THEN a ELSE Gcd(b, a % b)

Abs(a) == IF a < 0 THEN -a ELSE a

\* the fraction n/d (d > 0) in lowest terms
Frac(n, d) == LET g == Gcd(Abs(n), d) IN <<n \div g, d \div g>>
Num(n) == <<n, 1>>

IsNaN(c) == c = NaN
FracAdd(a, b) == Frac(a[1] * b[2] + b[1] * a[2], a[2] * b[2])
FracDiv(a, k) == Frac(a[1], a[2] * k)
FracLeq(a, b) == a[1] * b[2] <= b[1] * a[2]

\* ------------------------------------------------------------------ tables
Column(t, c) == [i \in 1..Len(t.rows) |-> t.rows[i][c]]

\* Series.dropna()
DropNa(s) == SelectSeq(s, LAMBDA c : ~IsNaN(c))

\* df.select_dtypes(include=["number"]).columns
NumericCols(t) == SelectSeq(t.cols, LAMBDA c : c \in t.numeric)

\* df.duplicated(): row i repeats an earlier row (NaN equals NaN)
Duplicated(t) == {i \in 1..Len(t.rows) : \E j \in 1..(i - 1) : t.rows[j] = t.rows[i]}

\* df.isnull().sum().sum()
MissingCount(t) ==
  Cardinality({<<i, c>> \in (1..Len(t.rows)) \X Range(t.cols) : IsNaN(t.rows[i][c])})

RECURSIVE KeepRows(_, _, _)
KeepRows(rows, drop, i) ==
  IF i > Len(rows) THEN <<>>
  ELSE IF i \in drop THEN KeepRows(rows, drop, i + 1)
  ELSE <<rows[i]>> \o KeepRows(rows, drop, i + 1)

\* df.drop_duplicates(): the first of equal rows is kept, order preserved
DropDuplicates(t) == [t EXCEPT !.rows = KeepRows(t.rows, Duplicated(t), 1)]

RECURSIVE FracSum(_)
FracSum(s) == IF s = <<>> THEN Num(0) ELSE FracAdd(s[1], FracSum(Tail(s)))

MeanZeroWhenEmpty(s) ==
  LET v == DropNa(s)
  IN  IF v = <<>> THEN Num(0) ELSE FracDiv(FracSum(v), Len(v))

\* Series.mean(): NaN skipped; NaN when nothing is left
Mean(s) ==
  LET v == DropNa(s)
  IN  IF v = <<>> THEN NaN ELSE FracDiv(FracSum(v), Len(v))

RECURSIVE Insert(_, _)
Insert(a, s) ==
  IF s = <<>> THEN <<a>>
  ELSE IF FracLeq(a, s[1]) THEN <<a>> \o s
  ELSE <<s[1]>> \o Insert(a, Tail(s))

RECURSIVE Sorted(_)
Sorted(s) == IF s = <<>> THEN <<>> ELSE Insert(s[1], Sorted(Tail(s)))

\* Series.median(): NaN skipped; the middle value, or the mean of the two middle ones
Median(s) ==
  LET v == Sorted(DropNa(s))
      n == Len(v)
  IN  IF n = 0 THEN NaN
      ELSE IF n % 2 = 1 THEN v[(n + 1) \div 2]
      ELSE FracDiv(FracAdd(v[n \div 2], v[n \div 2 + 1]), 2)

\* the value fillna() receives for column c under the selected strategy
FillValue(t, c, strat) ==
  IF strat = "Mean" THEN Mean(Column(t, c))
  ELSE IF strat = "Median" THEN Median(Column(t, c))
  ELSE Num(0)

\* fillna(v): a NaN fill value leaves the cell missing
FillCell(cell, v) == IF IsNaN(cell) THEN v ELSE cell

\* the columns the fill assigns to
FillTargets(t) == Range(NumericCols(t))

\* df[numeric_cols] = df[numeric_cols].fillna(...); no strategy selected: no branch taken
ApplyFill(t, strat) ==
  IF strat \notin {"Mean", "Median", "Zero"} THEN t
  ELSE [t EXCEPT !.rows =
          [i \in 1..Len(t.rows) |->
             [c \in Range(t.cols) |->
                IF c \in FillTargets(t)
                THEN FillCell(t.rows[i][c], FillValue(t, c, strat))
                ELSE t.rows[i][c]]]]

\* ------------------------------------------------------------ the session
Session ==
  [raw_df |-> raw_df, df |-> df, current_file |-> current_file,
   visual_config |-> visual_config, aliased |-> aliased]

\* temp_df.copy() twice: raw_df and df are distinct objects
LoadAliases == FALSE

ResetSharesObject == TRUE

\* raw_df.copy(): the working table is a distinct object again
ResetAliases == FALSE

AnyFileIsNew(s, name) == TRUE

\* the test that decides whether the uploaded file is read
IsNewFile(s, name) == s.current_file # Some(name)

StoreLoadedKeepsVisuals(s, name, t) ==
  [raw_df |-> Some(t), df |-> Some(t), current_file |-> Some(name),
   visual_config |-> s.visual_config, aliased |-> LoadAliases]

\* the assignments made once the file is parsed
StoreLoaded(s, name, t) ==
  [raw_df |-> Some(t), df |-> Some(t), current_file |-> Some(name),
   visual_config |-> <<>>, aliased |-> LoadAliases]

HandleUploadMarksFirst(s, up, content) ==
  IF up = None THEN [s |-> s, sidebar |-> ""]
  ELSE IF ~IsNewFile(s, up[1].name) THEN [s |-> s, sidebar |-> ""]
  ELSE IF content = None
       THEN [s |-> [s EXCEPT !.current_file = Some(up[1].name)], sidebar |-> "error"]
  ELSE [s |-> StoreLoaded(s, up[1].name, content[1]), sidebar |-> "success"]

\* "Handle File Upload Safely": up is the uploader's value, content what
\* read_csv / read_excel returns for it (None: the read raises)
HandleUpload(s, up, content) ==
  IF up = None THEN [s |-> s, sidebar |-> ""]
  ELSE IF ~IsNewFile(s, up[1].name) THEN [s |-> s, sidebar |-> ""]
  ELSE IF content = None THEN [s |-> s, sidebar |-> "error"]
  ELSE [s |-> StoreLoaded(s, up[1].name, content[1]), sidebar |-> "success"]

\* --------------------------------------------------------------- rendering
\* the four KPI cards
Kpi(t) ==
  [rows |-> Len(t.rows), columns |-> Len(t.cols),
   duplicates |-> Cardinality(Duplicated(t)), missing |-> MissingCount(t)]

IsNumericCol(t, column) == column # None /\ column[1] \in t.numeric

HasColumn(t, column) == column # None /\ column[1] \in Range(t.cols)

\* the branch of the if / elif chain that is taken: the plotting call, or "else"
Branch(t, chart, column) ==
  IF chart = "Histogram" /\ IsNumericCol(t, column) THEN "hist"
  ELSE IF chart = "Bar" THEN "bar"
  ELSE IF chart = "Pie" THEN "pie"
  ELSE IF chart = "Line" /\ IsNumericCol(t, column) THEN "plot"
  ELSE IF chart = "Scatter" /\ IsNumericCol(t, column) THEN "scatter"
  ELSE IF chart = "Boxplot" /\ IsNumericCol(t, column) THEN "boxplot"
  ELSE "else"

\* the plotting call raises: df[column] on a name that is no column (KeyError),
\* or scatter(range(len(col)), col.dropna()) with sequences of different length
Raises(t, branch, column) ==
  \/ branch \in {"bar", "pie"} /\ ~HasColumn(t, column)
  \/ /\ branch = "scatter"
     /\ Len(DropNa(Column(t, column[1]))) # Len(t.rows)

FigureClosedOnSuccessOnly(raised) == ~raised

\* finally: plt.close(fig)
FigureClosed(raised) == TRUE

\* the else branch of the Visualize preview writes the placeholder line
PreviewElse == "placeholder"

\* the Final Report chain has no else branch
ReportElse == ""

\* one pass of the try / except / finally around a figure
RenderChart(t, chart, column, elseMessage) ==
  LET b == Branch(t, chart, column)
      raised == Raises(t, b, column)
  IN  [chart |-> chart, column |-> column,
       plotted |-> b # "else",
       message |-> IF raised THEN "error" ELSE IF b = "else" THEN elseMessage ELSE "",
       figure |-> ~raised,
       closed |-> FigureClosed(raised)]

RenderAll(t, visuals, elseMessage) ==
  [i \in 1..Len(visuals) |-> RenderChart(t, visuals[i][1], visuals[i][2], elseMessage)]

\* for i in range(0, len(visuals), 3): visuals[i:i+3]
GridRows(visuals) ==
  [r \in 1..((Len(visuals) + GridWidth - 1) \div GridWidth) |->
     SubSeq(visuals, (r - 1) * GridWidth + 1, Min(r * GridWidth, Len(visuals)))]

RECURSIVE Concat(_)
Concat(ss) == IF ss = <<>> THEN <<>> ELSE ss[1] \o Concat(Tail(ss))

OpenFigures(charts) == Cardinality({i \in 1..Len(charts) : ~charts[i].closed})

InfoBody == [info |-> TRUE, kpi |-> None, charts |-> <<>>, summary |-> None]

\* page 1 without a pressed button: KPI cards (the preview and the download
\* button read the state and are not kept)
CleanBody(t) == [info |-> FALSE, kpi |-> Some(Kpi(t)), charts |-> <<>>, summary |-> None]

VisualizeBody(t, visuals) ==
  [info |-> FALSE, kpi |-> None, charts |-> RenderAll(t, visuals, PreviewElse),
   summary |-> None]

\* page 3: KPI cards, the chart grid row by row, then the summary of the numeric
\* columns (the columns described; <<>> stands for the "No numeric columns" line)
ReportBody(t, visuals) ==
  LET rows == GridRows(visuals)
  IN  [info |-> FALSE, kpi |-> Some(Kpi(t)),
       charts |-> Concat([r \in 1..Len(rows) |-> RenderAll(t, rows[r], ReportElse)]),
       summary |-> Some(NumericCols(t))]

\* ------------------------------------------------------- Visualize widgets
\* a selectbox shows its first option until the user picks one; with no
\* options it returns None
DefaultColumn(t) == IF t.cols = <<>> THEN None ELSE Some(t.cols[1])

\* the (chart, column) the i-th pair of selectboxes returns: the stored
\* selection while the widget was rendered by the previous run with the same
\* options, the default otherwise
SlotValue(t, w, sameOptions, i) ==
  IF i <= Len(w)
  THEN <<w[i][1], IF sameOptions THEN w[i][2] ELSE DefaultColumn(t)>>
  ELSE <<chart_types[1], DefaultColumn(t)>>

\* visual_config = []; for i in range(num_visuals): ... append((chart, column))
BuildVisualConfig(t, w, sameOptions, num) ==
  [i \in 1..num |-> SlotValue(t, w, sameOptions, i)]

\* ------------------------------------------------------------ a script run
\* the in-place column assignment of the fill: it writes to the object that
\* st.session_state.df refers to
FillInPlace(s, strat) ==
  LET t2 == ApplyFill(s.df[1], strat)
  IN  [s EXCEPT !.df = Some(t2),
                !.raw_df = IF s.aliased THEN Some(t2) ELSE @]

\* st.session_state.df = df.drop_duplicates(): a new object
DropInSession(s) == [s EXCEPT !.df = Some(DropDuplicates(s.df[1])), !.aliased = FALSE]

ResetClearsVisuals(s) ==
  [s EXCEPT !.df = s.raw_df, !.aliased = ResetAliases, !.visual_config = <<>>]

\* st.session_state.df = st.session_state.raw_df.copy()
ResetInSession(s) == [s EXCEPT !.df = s.raw_df, !.aliased = ResetAliases]

NumVisualsMinimum(n) == IF n = 0 THEN SliderMin ELSE n

\* the slider's value: 3 until the user moves it
NumVisuals(n) == IF n = 0 THEN SliderDefault ELSE n

\* One execution of the script.  s: session_state before the run; pg, up: the
\* radio and the uploader; content: what reading up gives; w, n: the stored
\* selectbox values and the slider (n = 0: not rendered by the previous run);
\* press, strat: the pressed button and the fill selectbox.
Script(s, pg, up, content, w, n, press, strat) ==
  LET h == HandleUpload(s, up, content)
      s1 == h.s
      out(s2, sl, b, rr) ==
        [s |-> s2, slots |-> sl, sidebar |-> h.sidebar, body |-> b,
         open_figs |-> OpenFigures(b.charts), rerun |-> rr]
  IN  IF s1.df = None THEN out(s1, <<>>, InfoBody, FALSE)
      ELSE
        LET t == s1.df[1]
        IN  IF pg = Pages[1] THEN
              IF press = "dedupe" THEN out(DropInSession(s1), <<>>, InfoBody, TRUE)
              ELSE IF press = "fill" THEN out(FillInPlace(s1, strat), <<>>, InfoBody, TRUE)
              ELSE IF press = "reset" THEN out(ResetInSession(s1), <<>>, InfoBody, TRUE)
              ELSE out(s1, <<>>, CleanBody(t), FALSE)
            ELSE IF pg = Pages[2] THEN
              LET sameOptions == s.df # None /\ s.df[1].cols = t.cols
                  vc == BuildVisualConfig(t, w, sameOptions, NumVisuals(n))
              IN  out([s1 EXCEPT !.visual_config = vc], vc, VisualizeBody(t, vc), FALSE)
            ELSE out(s1, <<>>, ReportBody(t, s1.visual_config), FALSE)

\* What a run other than the one that received the file reads from the
\* uploader.  A readable file under a new name was stored by the run that
\* received it, so later runs find its name in current_file and do not read it.
StoredContent ==
  IF uploaded_file # None /\ uploaded_file[1].readable THEN raw_df ELSE None

\* an interaction: the run it triggers and, after st.rerun(), the next one
Interaction(pg, up, content, w, n, press, strat) ==
  LET r1 == Script(Session, pg, up, content, w, n, press, strat)
  IN  IF r1.rerun THEN Script(r1.s, pg, up, content, <<>>, 0, "none", "")
      ELSE r1

Apply(r, pg, up) ==
  /\ raw_df' = r.s.raw_df
  /\ df' = r.s.df
  /\ current_file' = r.s.current_file
  /\ visual_config' = r.s.visual_config
  /\ aliased' = r.s.aliased
  /\ page' = pg
  /\ uploaded_file' = up
  /\ slots' = r.slots
  /\ sidebar' = r.sidebar
  /\ body' = r.body
  /\ open_figs' = r.open_figs

\* ----------------------------------------------------------------- actions
Init ==
  /\ raw_df = None
  /\ df = None
  /\ current_file = None
  /\ visual_config = <<>>
  /\ aliased = FALSE
  /\ page = Pages[1]
  /\ uploaded_file = None
  /\ slots = <<>>
  /\ sidebar = ""
  /\ body = InfoBody
  /\ open_figs = 0

\* the radio is moved to another view
SelectPage(p) ==
  /\ p # page
  /\ Apply(Interaction(p, uploaded_file, StoredContent, <<>>, 0, "none", ""),
           p, uploaded_file)

\* a file is dropped on the uploader (f.content = None: it cannot be read)
Upload(f) ==
  LET up == Some([name |-> f.name, readable |-> f.content # None])
  IN  Apply(Interaction(page, up, f.content, slots, Len(slots), "none", ""),
            page, up)

\* the file is removed from the uploader
RemoveFile ==
  /\ uploaded_file # None
  /\ Apply(Interaction(page, None, None, slots, Len(slots), "none", ""),
           page, None)

Press(button, strat) ==
  /\ page = Pages[1]
  /\ df # None
  /\ Apply(Interaction(page, uploaded_file, StoredContent, <<>>, 0, button, strat),
           page, uploaded_file)

PressDropDuplicates == Press("dedupe", "")

PressApplyFill(strat) == Press("fill", strat)

PressReset == Press("reset", "")

Configure(w, n) ==
  /\ page = Pages[2]
  /\ df # None
  /\ Apply(Interaction(page, uploaded_file, StoredContent, w, n, "none", ""),
           page, uploaded_file)

\* the slider is moved: the selectboxes above the new count keep their values
SetSlider(n) ==
  /\ n # Len(slots)
  /\ Configure(SubSeq(slots, 1, Min(n, Len(slots))), n)

SetChart(i, k) ==
  /\ i <= Len(slots)
  /\ k # slots[i][1]
  /\ Configure([slots EXCEPT ![i][1] = k], Len(slots))

SetColumn(i, c) ==
  /\ i <= Len(slots)
  /\ Some(c) # slots[i][2]
  /\ Configure([slots EXCEPT ![i][2] = Some(c)], Len(slots))

\* loading, navigating and cleaning
NextOf(files) ==
  \/ \E p \in Range(Pages) : SelectPage(p)
  \/ \E f \in files : Upload(f)
  \/ RemoveFile
  \/ PressDropDuplicates
  \/ \E strat \in Range(FillStrategies) : PressApplyFill(strat)
  \/ PressReset

\* the Visualize widgets: the slider up to MaxVisuals, the selectboxes of the
\* first MaxEdited slots
NextConfigure ==
  \/ \E n \in SliderMin..MaxVisuals : SetSlider(n)
  \/ \E i \in 1..MaxEdited, k \in Range(chart_types) : SetChart(i, k)
  \/ \E i \in 1..MaxEdited : \E c \in (IF df = None THEN {} ELSE Range(df[1].cols)) :
       SetColumn(i, c)

\* ------------------------------------------------------------- the uploads
Names == {"a.csv", "b.xlsx"}

\* a number column with a missing value and a text column; the fill makes
\* the two rows equal
MixedTable ==
  [cols |-> <<"x", "y">>, numeric |-> {"x"},
   rows |-> <<[x |-> Num(1), y |-> Txt("a")], [x |-> NaN, y |-> Txt("a")]>>]

\* other columns
SingleTable ==
  [cols |-> <<"z">>, numeric |-> {"z"}, rows |-> <<[z |-> Num(5)], [z |-> Num(7)]>>]

\* read_excel of an empty sheet: no columns, no rows
EmptySheet == [cols |-> <<>>, numeric |-> {}, rows |-> <<>>]

ViewTables == {MixedTable, SingleTable, EmptySheet}

\* uploaded_file.name.endswith(".csv"): read_csv, else read_excel
IsCsv(name) == name = "a.csv"

\* the files the user may drop on the uploader: each table under each name,
\* and under each name a file that cannot be read (read_csv raises on a file
\* without columns, so only the spreadsheet can be the empty sheet)
ViewFiles ==
  {f \in [name : Names, content : {Some(t) : t \in ViewTables} \cup {None}] :
     IsCsv(f.name) => f.content # Some(EmptySheet)}

\* the example of the specification: a duplicate row and a missing number
ExampleTable ==
  [cols |-> <<"x", "y">>, numeric |-> {"x"},
   rows |-> <<[x |-> Num(1), y |-> Txt("a")], [x |-> Num(1), y |-> Txt("a")],
              [x |-> Num(2), y |-> Txt("b")], [x |-> NaN, y |-> Txt("c")]>>]

\* every table of columns x (numbers) and y (text) with at most MaxRows rows
CleanRows == [x : {Num(1), Num(2), NaN}, y : {Txt("a"), NaN}]

CleanTables ==
  {[cols |-> <<"x", "y">>, numeric |-> {"x"}, rows |-> r] :
     r \in UNION {[1..k -> CleanRows] : k \in 0..MaxRows}} \cup {ExampleTable}

\* ---------------------------------------------------------- specifications
Next == NextOf(ViewFiles) \/ NextConfigure

Spec == Init /\ [][Next]_vars

EmptySession ==
  [raw_df |-> None, df |-> None, current_file |-> None, visual_config |-> <<>>,
   aliased |-> FALSE]

\* the session right after a table of CleanTables was uploaded as a.csv to a
\* fresh session showing Upload & Clean
InitClean ==
  \E t \in CleanTables :
    LET up == Some([name |-> "a.csv", readable |-> TRUE])
        r == Script(EmptySession, Pages[1], up, Some(t), <<>>, 0, "none", "")
    IN  /\ raw_df = r.s.raw_df
        /\ df = r.s.df
        /\ current_file = r.s.current_file
        /\ visual_config = r.s.visual_config
        /\ aliased = r.s.aliased
        /\ page = Pages[1]
        /\ uploaded_file = up
        /\ slots = r.slots
        /\ sidebar = r.sidebar
        /\ body = r.body
        /\ open_figs = r.open_figs

\* the cleaning operations over every small table; the Visualize widgets are
\* left at what they show by default
NextClean == NextOf(ViewFiles)

SpecClean == InitClean /\ [][NextClean]_vars

\* a readable file in the uploader has been stored under its name
UploaderConsumed ==
  (uploaded_file # None /\ uploaded_file[1].readable) =>
     current_file = Some(uploaded_file[1].name)

\* ------------------------------------------------------------------ claims
StateFields == <<raw_df, df, current_file, visual_config>>

\* the step is Upload(f); the first two conjuncts follow from it and are
\* stated first so that other steps are told apart at once
UploadStep(f) ==
  /\ page' = page
  /\ uploaded_file' = Some([name |-> f.name, readable |-> f.content # None])
  /\ Upload(f)

\* the step is SelectPage(p)
SwitchStep(p) ==
  /\ page' = p
  /\ SelectPage(p)

\* the step is a press of a cleaning button
PressStep(button, strat) ==
  /\ page = Pages[1]
  /\ page' = page
  /\ uploaded_file' = uploaded_file
  /\ Press(button, strat)

\* the interaction "file f, readable and under a name other than the active
\* source, is dropped on the uploader"
LoadsNewFile(f) ==
  /\ f.content # None
  /\ current_file # Some(f.name)
  /\ UploadStep(f)

\* the tables and the active source after the load of f
TablesReplacedBy(f) ==
  /\ raw_df' = f.content
  /\ df' = f.content
  /\ current_file' = Some(f.name)

\* every entry of the configuration vc is a chart kind with a column of t, or
\* with the empty selection when t has no column
EntriesFit(t, vc) ==
  \A i \in 1..Len(vc) :
    /\ vc[i][1] \in Range(chart_types)
    /\ \/ HasColumn(t, vc[i][2])
       \/ vc[i][2] = None /\ t.cols = <<>>

\* C1 as stated: after the upload of a new readable file B, on whichever view,
\* visual_config is empty, both tables equal B's content and the active source
\* is B's name.
C1_AsStated ==
  [][\A f \in ViewFiles :
       LoadsNewFile(f) => (TablesReplacedBy(f) /\ visual_config' = <<>>)]_vars

\* C1 amended: after the upload of a new readable file B both tables equal B's
\* content and the active source is B's name; visual_config is empty when the
\* upload happens on Upload & Clean or Final Report, and on Visualize it is
\* rebuilt by the same run: one entry per slot, each with a column of B.
C1_LoadReplacesState ==
  [][\A f \in ViewFiles :
       LoadsNewFile(f) =>
         /\ TablesReplacedBy(f)
         /\ page # Pages[2] => visual_config' = <<>>
         /\ page = Pages[2] =>
              /\ Len(visual_config') = (IF slots = <<>> THEN SliderDefault ELSE Len(slots))
              /\ EntriesFit(f.content[1], visual_config')]_vars

\* a load has just happened on Visualize, where the configuration was rebuilt
C1_Witness ==
  /\ sidebar = "success"
  /\ page = Pages[2]
  /\ visual_config # <<>>
  /\ current_file = Some("b.xlsx")
  /\ df = Some(SingleTable)

\* C2 as stated: a view switch leaves original table, working table, active
\* source and visual_config unchanged.
C2_AsStated ==
  [][\A p \in Range(Pages) : SwitchStep(p) => UNCHANGED StateFields]_vars

\* what the Visualize slots show when they were not on the previous page
DefaultConfig(t) == [i \in 1..SliderDefault |-> <<chart_types[1], DefaultColumn(t)>>]

\* C2 amended: a view switch leaves original table, working table and active
\* source unchanged; visual_config is unchanged when the new view is Upload &
\* Clean or Final Report or when no table is loaded, and a switch to Visualize
\* with a table loaded replaces it by the slots' default selections.
C2_ViewSwitch ==
  [][\A p \in Range(Pages) :
       SwitchStep(p) =>
         /\ UNCHANGED <<raw_df, df, current_file>>
         /\ (p # Pages[2] \/ df = None) => UNCHANGED visual_config
         /\ (p = Pages[2] /\ df # None) => visual_config' = DefaultConfig(df[1])]_vars

\* the Final Report shows a configuration made on Visualize, with a cleaned table
C2_Witness ==
  /\ page = Pages[3]
  /\ Len(visual_config) = MaxVisuals
  /\ visual_config[1] = <<"Pie", Some("y")>>
  /\ df # raw_df

\* C3: the original table changes only in a successful load of a new file, to
\* that file's content; drop-duplicates, every fill, reset, chart configuration
\* and view switches leave it alone, and the working table is never the same
\* object as the original.
C3_OriginalOnlySetByLoad ==
  [][/\ raw_df' # raw_df =>
          \E f \in ViewFiles : LoadsNewFile(f) /\ raw_df' = f.content
     /\ ~aliased']_vars

\* a fill has written into the working table and the original still has its
\* missing value
C3_Witness ==
  /\ df # None
  /\ df[1].rows # <<>>
  /\ Len(df[1].rows) = Len(raw_df[1].rows)
  /\ MissingCount(raw_df[1]) > MissingCount(df[1])
  /\ visual_config # <<>>

\* C4: reset makes the working table equal to the original and leaves
\* visual_config, the original table and the active source unchanged.
C4_ResetRestoresOriginal ==
  [][PressStep("reset", "") =>
       (df' = raw_df /\ UNCHANGED <<visual_config, raw_df, current_file>>)]_vars

\* Upload & Clean with a working table that lost rows and missing values, and
\* charts configured: the state reset acts on
C4_Witness ==
  /\ page = Pages[1]
  /\ df # None
  /\ Len(df[1].rows) < Len(raw_df[1].rows)
  /\ MissingCount(df[1]) < MissingCount(raw_df[1])
  /\ visual_config # <<>>

\* C5: an upload whose name equals the active source leaves original table,
\* working table and visual_config unchanged, whatever the file holds.
C5_SameNameIgnored ==
  [][\A f \in ViewFiles :
       (current_file = Some(f.name) /\ UploadStep(f)) =>
          UNCHANGED <<raw_df, df, visual_config>>]_vars

\* a file that cannot be read sits in the uploader under the active name, the
\* working table is cleaned and charts are configured
C5_Witness ==
  /\ uploaded_file # None
  /\ ~uploaded_file[1].readable
  /\ current_file = Some(uploaded_file[1].name)
  /\ df # raw_df
  /\ visual_config # <<>>

\* the uploader holds a file whose read fails on every run
FailedUploadPending ==
  /\ uploaded_file # None
  /\ ~uploaded_file[1].readable
  /\ current_file # Some(uploaded_file[1].name)

\* C6: a failed parse shows the error and leaves original table, working table,
\* active source and visual_config as they were; with the unreadable file still
\* in the uploader, cleaning, reset and a later successful upload do what they
\* do without it.
C6_FailedUploadKeepsState ==
  [][/\ \A f \in ViewFiles :
          (f.content = None /\ current_file # Some(f.name) /\ UploadStep(f)) =>
             (sidebar' = "error" /\ UNCHANGED StateFields)
     /\ (FailedUploadPending /\ PressStep("dedupe", "")) =>
          (df' = Some(DropDuplicates(df[1])) /\ UNCHANGED <<raw_df, current_file, visual_config>>)
     /\ \A strat \in Range(FillStrategies) :
          (FailedUploadPending /\ PressStep("fill", strat)) =>
             (df' = Some(ApplyFill(df[1], strat))
                /\ UNCHANGED <<raw_df, current_file, visual_config>>)
     /\ (FailedUploadPending /\ PressStep("reset", "")) =>
          (df' = raw_df /\ UNCHANGED <<raw_df, current_file, visual_config>>)
     /\ \A f \in ViewFiles :
          (FailedUploadPending /\ LoadsNewFile(f)) =>
             (TablesReplacedBy(f) /\ sidebar' = "success")]_vars

\* the error of a failed read is on screen beside a loaded, cleaned table
C6_Witness ==
  /\ sidebar = "error"
  /\ FailedUploadPending
  /\ df # None
  /\ df # raw_df
  /\ visual_config # <<>>

\* C7 as stated: every entry of visual_config names a column of the working
\* table, and the working table has the columns of the original.
C7_AsStated ==
  /\ df = None => visual_config = <<>>
  /\ df # None =>
       /\ \A i \in 1..Len(visual_config) : HasColumn(df[1], visual_config[i][2])
       /\ df[1].cols = raw_df[1].cols

\* C7 amended: every entry of visual_config names a column of the working
\* table, or carries the empty selection when the working table has no column
\* at all; the working table has the columns of the original.
C7_ConfigFitsTable ==
  /\ df = None => visual_config = <<>>
  /\ df # None =>
       /\ EntriesFit(df[1], visual_config)
       /\ df[1].cols = raw_df[1].cols

\* a second file with other columns was loaded on Visualize after charts
\* existed for the first
C7_Witness ==
  /\ sidebar = "success"
  /\ page = Pages[2]
  /\ df = Some(SingleTable)
  /\ Len(visual_config) = MaxVisuals
  /\ visual_config[1] = <<"Pie", Some("z")>>

\* C8: Histogram, Line, Scatter and Boxplot on a column that is not numeric
\* give no error, a placeholder and no plotting call, in the Visualize preview
\* and in the Final Report grid alike; Bar and Pie are drawn for any column.
C8_PlaceholderBothViews ==
  \A i \in 1..Len(body.charts) :
    LET c == body.charts[i]
    IN  /\ (c.chart \in {"Histogram", "Line", "Scatter", "Boxplot"}
              /\ HasColumn(df[1], c.column) /\ ~IsNumericCol(df[1], c.column)) =>
             (c.message = "placeholder" /\ ~c.plotted)
        /\ (c.chart \in {"Bar", "Pie"} /\ HasColumn(df[1], c.column)) =>
             (c.plotted /\ c.figure /\ c.message = "")

\* all-missing numeric column c
AllMissing(t, c) == \A i \in 1..Len(t.rows) : IsNaN(t.rows[i][c])

\* C9: after Drop Duplicate Rows the table has no more rows than before and a
\* second press would change nothing; after a fill with Mean, Median or Zero a
\* second fill with the same strategy would change nothing, the non-numeric
\* columns are as before, and Mean and Median leave a numeric column that is
\* entirely missing as it is.
C9_CleaningIdempotent ==
  [][/\ PressStep("dedupe", "") =>
          /\ Len(df'[1].rows) <= Len(df[1].rows)
          /\ DropDuplicates(df'[1]) = df'[1]
     /\ \A strat \in {"Mean", "Median", "Zero"} :
          PressStep("fill", strat) =>
            /\ ApplyFill(df'[1], strat) = df'[1]
            /\ Len(df'[1].rows) = Len(df[1].rows)
            /\ \A i \in 1..Len(df[1].rows) : \A c \in Range(df[1].cols) :
                 c \notin df[1].numeric => df'[1].rows[i][c] = df[1].rows[i][c]
            /\ \A c \in df[1].numeric :
                 (strat # "Zero" /\ AllMissing(df[1], c)) => AllMissing(df'[1], c)]_vars

\* a fill replaced the missing number of the second row by the value of the
\* first and left the missing text of that row
C9_Witness ==
  /\ df # None
  /\ df[1].cols = <<"x", "y">>
  /\ Len(df[1].rows) = 2
  /\ Len(raw_df[1].rows) = 2
  /\ IsNaN(raw_df[1].rows[2].x)
  /\ df[1].rows[1].x = Num(2)
  /\ df[1].rows[2].x = Num(2)
  /\ IsNaN(df[1].rows[2].y)

\* the plotting call of the entry raises on the working table
EntryRaises(t, e) == Raises(t, Branch(t, e[1], e[2]), e[2])

\* C10: on both rendering views every entry of visual_config is rendered, in
\* order; an entry whose plotting call raises shows an error and no figure, the
\* others show their figure; the Final Report still has its KPI cards and its
\* summary; no figure is left open; rendering the Final Report changes nothing
\* of the session state.
C10_FailureConfined ==
  [][/\ (page' \in {Pages[2], Pages[3]} /\ df' # None) =>
          /\ Len(body'.charts) = Len(visual_config')
          /\ \A i \in 1..Len(visual_config') :
               /\ body'.charts[i].chart = visual_config'[i][1]
               /\ body'.charts[i].column = visual_config'[i][2]
               /\ EntryRaises(df'[1], visual_config'[i]) =>
                    (body'.charts[i].message = "error" /\ ~body'.charts[i].figure)
               /\ ~EntryRaises(df'[1], visual_config'[i]) =>
                    (body'.charts[i].message # "error" /\ body'.charts[i].figure)
          /\ page' = Pages[3] => (body'.kpi # None /\ body'.summary # None)
     /\ open_figs' = 0
     /\ SwitchStep(Pages[3]) => UNCHANGED StateFields]_vars

\* on the Final Report the first chart failed (Scatter on a column with a
\* missing value) and the one after it is drawn
C10_Witness ==
  /\ page = Pages[3]
  /\ Len(body.charts) >= 2
  /\ body.charts[1].chart = "Scatter"
  /\ body.charts[1].message = "error"
  /\ body.charts[2].figure
  /\ body.charts[2].plotted
  /\ body.kpi # None
  /\ open_figs = 0
====
